---- MODULE Spec2Model ----
(***************************************************************************)
(* Model of src/main.js: a script that acquires a WebGL context, compiles  *)
(* a vertex and a fragment shader, links them, uploads two attribute       *)
(* arrays and issues one draw call.                                        *)
(*                                                                         *)
(* The script is straight-line code.  pc names the statement about to run  *)
(* ("L<line>" of src/main.js), status tells whether the script is still    *)
(* running, ran to its last statement, or stopped on an uncaught           *)
(* exception.  js holds the script's bindings under their source names,    *)
(* ctx the state of the WebGLRenderingContext, calls the WebGL calls       *)
(* issued so far (in order), log the console.error output.                 *)
(*                                                                         *)
(* What the host decides is drawn nondeterministically: whether the page   *)
(* has the canvas, whether it hands out a 'webgl' context, the surface     *)
(* size, each compile status, the link status, the attribute slots the     *)
(* linker assigns, and how the WebGL binding treats a null object          *)
(* argument where the interface declares a non-nullable one (attachShader, *)
(* getAttribLocation): a binding that follows the IDL raises a TypeError,  *)
(* a lenient one records INVALID_VALUE and returns.                        *)
(***************************************************************************)
EXTENDS Integers, Sequences, FiniteSets, TLC

VARIABLES pc, status, js, ctx, calls, log, dom, strictBinding

vars == <<pc, status, js, ctx, calls, log, dom, strictBinding>>

\* ------------------------------------------------------------------ bounds
\* Surface width and height range over 1..MaxDim.
MaxDim == 2
\* Attribute slots range over 0..MaxLoc.
MaxLoc == 1

\* ------------------------------------------------------------------ values
\* JavaScript null, for object-valued bindings (handles are 1, 2, ...).
Null == 0
\* What getAttribLocation returns when it finds no slot.
NotFound == -1
\* A const binding whose declaration has not run yet.
Uninit == -2

\* gl.vertexAttribPointer(pointsLocation, 2, ...)
PointsSize == 2
\* gl.vertexAttribPointer(colorLocation, 4, ...)
ColorsSize == 4
\* gl.drawArrays(gl.TRIANGLES, 0, 3)
VertexCount == 3

\* Array elements are stored in halves (0.5 is 1, 1. is 2), so that every
\* literal of the two arrays is an integer.

\* const points_arr = [-1., -1., 0., 0.5, 1., -1.]
PointsLiteral == <<-2, -2, 0, 1, 2, -2>>

\* The colors written without their alpha channel.
ColorsLiteralRGB == <<2, 0, 0,  0, 2, 0,  0, 0, 2>>

\* const colors_arr = [1,0,0,1, 0,1,0,1, 0,0,1,1]
ColorsLiteral == <<2, 0, 0, 2,  0, 2, 0, 2,  0, 0, 2, 2>>

\* new Float32Array(arr): one 32-bit float per element.  Every literal above
\* is a small multiple of 0.5, which binary32 holds exactly; an element that
\* is no multiple of 2^-23 in (-2^24, 2^24) would be rounded.
Float32Array(arr) == [i \in 1..Len(arr) |-> arr[i]]

AttribNames == {"a_points", "a_colors"}

\* ------------------------------------------------------------ WebGL objects
NewShader(type) ==
    [type |-> type, hasSource |-> FALSE, compiled |-> FALSE,
     status |-> FALSE, deleted |-> FALSE]

NewProgram ==
    [attached |-> <<>>, linked |-> FALSE, status |-> FALSE,
     locs |-> [n \in AttribNames |-> NotFound], deleted |-> FALSE]

NewBuffer == [data |-> <<>>, usage |-> "none"]

DefaultAttrib ==
    [enabled |-> FALSE, size |-> 4, type |-> "FLOAT", normalized |-> FALSE,
     stride |-> 0, offset |-> 0, buffer |-> Null]

\* The context a canvas of the given size hands out.
NewContext(w, h) ==
    [nextId |-> 1, shaders |-> <<>>, programs |-> <<>>, buffers |-> <<>>,
     arrayBuffer |-> Null,
     attribs |-> [i \in 0..MaxLoc |-> DefaultAttrib],
     currentProgram |-> Null,
     viewport |-> <<0, 0, w, h>>, clearColor |-> <<0, 0, 0, 0>>,
     cleared |-> FALSE, error |-> "NO_ERROR"]

\* The first error since the last getError is the one kept.
RaiseError(c, e) ==
    IF c.error = "NO_ERROR" THEN [c EXCEPT !.error = e] ELSE c

IsShader(c, s) == s \in DOMAIN c.shaders /\ ~c.shaders[s].deleted
IsProgram(c, p) == p \in DOMAIN c.programs /\ ~c.programs[p].deleted
IsBuffer(c, b) == b \in DOMAIN c.buffers

\* The shader types among the shaders attached to program p.
AttachedTypes(c, p) ==
    {c.shaders[c.programs[p].attached[i]].type :
        i \in 1..Len(c.programs[p].attached)}

\* ------------------------------------------------------------ WebGL calls
\* Each operator gives the context after the call.

GL_createShader(c, type) ==
    [c EXCEPT !.shaders = @ @@ (c.nextId :> NewShader(type)),
              !.nextId = @ + 1]

GL_shaderSource(c, s) ==
    IF IsShader(c, s) THEN [c EXCEPT !.shaders[s].hasSource = TRUE]
    ELSE RaiseError(c, "INVALID_VALUE")

\* ok is the outcome the backend compiler reports.
GL_compileShader(c, s, ok) ==
    IF IsShader(c, s)
    THEN [c EXCEPT !.shaders[s].compiled = TRUE,
                   !.shaders[s].status = ok /\ c.shaders[s].hasSource]
    ELSE RaiseError(c, "INVALID_VALUE")

GL_getShaderParameter_COMPILE_STATUS(c, s) ==
    IsShader(c, s) /\ c.shaders[s].status

\* deleteShader(null) is silently ignored; a shader attached to no program is
\* deleted at once.
GL_deleteShader(c, s) ==
    IF s = Null THEN c
    ELSE IF IsShader(c, s) THEN [c EXCEPT !.shaders[s].deleted = TRUE]
    ELSE RaiseError(c, "INVALID_VALUE")

GL_createProgram(c) ==
    [c EXCEPT !.programs = @ @@ (c.nextId :> NewProgram),
              !.nextId = @ + 1]

\* attachShader with a shader argument the (lenient) binding let through.
GL_attachShader(c, p, s) ==
    IF ~IsProgram(c, p) \/ ~IsShader(c, s) THEN RaiseError(c, "INVALID_VALUE")
    ELSE IF c.shaders[s].type \in AttachedTypes(c, p)
    THEN RaiseError(c, "INVALID_OPERATION")
    ELSE [c EXCEPT !.programs[p].attached = Append(@, s)]

\* A program links only with a compiled vertex and a compiled fragment
\* shader attached; ok is the linker's verdict then, and locs the slots it
\* gives the two active attributes.
GL_linkProgram(c, p, ok, locs) ==
    IF ~IsProgram(c, p) THEN RaiseError(c, "INVALID_VALUE")
    ELSE LET complete ==
                 /\ AttachedTypes(c, p) = {"VERTEX_SHADER", "FRAGMENT_SHADER"}
                 /\ \A i \in 1..Len(c.programs[p].attached) :
                        c.shaders[c.programs[p].attached[i]].status
             good == ok /\ complete
         IN [c EXCEPT !.programs[p].linked = TRUE,
                      !.programs[p].status = good,
                      !.programs[p].locs =
                          IF good THEN locs ELSE [n \in AttribNames |-> NotFound]]

GL_getProgramParameter_LINK_STATUS(c, p) ==
    IsProgram(c, p) /\ c.programs[p].status

GL_createBuffer(c) ==
    [c EXCEPT !.buffers = @ @@ (c.nextId :> NewBuffer),
              !.nextId = @ + 1]

GL_bindBuffer_ARRAY_BUFFER(c, b) ==
    IF b = Null \/ IsBuffer(c, b) THEN [c EXCEPT !.arrayBuffer = b]
    ELSE RaiseError(c, "INVALID_OPERATION")

GL_bufferData_ARRAY_BUFFER(c, data, usage) ==
    IF c.arrayBuffer = Null THEN RaiseError(c, "INVALID_OPERATION")
    ELSE [c EXCEPT !.buffers[c.arrayBuffer] = [data |-> data, usage |-> usage]]

\* The value getAttribLocation returns for a program the binding let through.
GL_getAttribLocation(c, p, name) ==
    IF IsProgram(c, p) /\ c.programs[p].status THEN c.programs[p].locs[name]
    ELSE NotFound

GL_getAttribLocation_ctx(c, p) ==
    IF p = Null THEN RaiseError(c, "INVALID_VALUE")
    ELSE IF IsProgram(c, p) /\ c.programs[p].status THEN c
    ELSE RaiseError(c, "INVALID_OPERATION")

GL_vertexAttribPointer(c, index, size, type, normalized, stride, offset) ==
    IF index \notin 0..MaxLoc THEN RaiseError(c, "INVALID_VALUE")
    ELSE IF c.arrayBuffer = Null /\ offset # 0
    THEN RaiseError(c, "INVALID_OPERATION")
    ELSE [c EXCEPT !.attribs[index] =
             [enabled |-> @.enabled, size |-> size, type |-> type,
              normalized |-> normalized, stride |-> stride, offset |-> offset,
              buffer |-> c.arrayBuffer]]

GL_enableVertexAttribArray(c, index) ==
    IF index \notin 0..MaxLoc THEN RaiseError(c, "INVALID_VALUE")
    ELSE [c EXCEPT !.attribs[index].enabled = TRUE]

GL_viewport(c, x, y, w, h) == [c EXCEPT !.viewport = <<x, y, w, h>>]

GL_clearColor(c, r, g, b, a) == [c EXCEPT !.clearColor = <<r, g, b, a>>]

GL_clear_COLOR_BUFFER_BIT(c) == [c EXCEPT !.cleared = TRUE]

GL_useProgram(c, p) ==
    IF p = Null THEN [c EXCEPT !.currentProgram = Null]
    ELSE IF IsProgram(c, p) /\ c.programs[p].status
    THEN [c EXCEPT !.currentProgram = p]
    ELSE RaiseError(c, "INVALID_OPERATION")

\* drawArrays with no current program draws nothing and records an error.
GL_drawArrays(c, mode, first, count) ==
    IF c.currentProgram = Null THEN RaiseError(c, "INVALID_OPERATION") ELSE c

\* ------------------------------------------------------------------- state
DomStates ==
    [hasCanvas : BOOLEAN, webgl : BOOLEAN, width : 1..MaxDim, height : 1..MaxDim]

\* The bindings of the script before any declaration has run.
InitialBindings ==
    [canvas |-> "uninit", gl |-> "uninit",
     type |-> "none", source |-> "none", shader |-> Uninit,
     vertexShader |-> Uninit, fragmentShader |-> Uninit, cpProgram |-> Uninit,
     program |-> Uninit,
     points_arr |-> <<>>, colors_arr |-> <<>>,
     pointsBuffer |-> Uninit, pointsLocation |-> Uninit,
     colorsBuffer |-> Uninit, colorLocation |-> Uninit]

Init ==
    /\ pc = "L13"
    /\ status = "running"
    /\ js = InitialBindings
    /\ dom \in DomStates
    /\ strictBinding \in BOOLEAN
    /\ ctx = NewContext(dom.width, dom.height)
    /\ calls = <<>>
    /\ log = <<>>

At(l) == status = "running" /\ pc = l

Call(op, tag, args) == [op |-> op, tag |-> tag, args |-> args]

Issue(op, tag, args) == calls' = Append(calls, Call(op, tag, args))

ConsoleError(text, obj) == log' = Append(log, [text |-> text, obj |-> obj])

\* An uncaught TypeError ends the script at the statement that raised it.
Throw == status' = "threw" /\ pc' = pc

host == <<dom, strictBinding>>

\* ------------------------------------------------- acquiring the context
\* 13: const canvas = document.getElementById('leCanvas')
L13_getElementById ==
    /\ At("L13")
    /\ js' = [js EXCEPT !.canvas = IF dom.hasCanvas THEN "canvas" ELSE "null"]
    /\ pc' = "L14"
    /\ UNCHANGED <<status, ctx, calls, log, host>>

\* 14-16: if (!canvas) { console.error('Canvas not found :(') }
L14_checkCanvas ==
    /\ At("L14")
    /\ IF js.canvas = "null"
       THEN ConsoleError("Canvas not found :(", Null)
       ELSE UNCHANGED log
    /\ pc' = "L19"
    /\ UNCHANGED <<status, js, ctx, calls, host>>

\* Line 19 written canvas?.getContext('webgl'): no exception on a missing
\* canvas.
L19_getContextOptional ==
    /\ At("L19")
    /\ js' = [js EXCEPT !.gl = IF js.canvas = "canvas" /\ dom.webgl
                               THEN "gl" ELSE "null"]
    /\ pc' = "L20"
    /\ UNCHANGED <<status, ctx, calls, log, host>>

\* 19: const gl = canvas.getContext('webgl')
\* Reading a property of null raises a TypeError.
L19_getContext ==
    /\ At("L19")
    /\ IF js.canvas = "null"
       THEN Throw /\ UNCHANGED js
       ELSE /\ js' = [js EXCEPT !.gl = IF dom.webgl THEN "gl" ELSE "null"]
            /\ pc' = "L20"
            /\ UNCHANGED status
    /\ UNCHANGED <<ctx, calls, log, host>>

\* 20-22: if (!gl) { console.error('WebGL not supported :(') }
L20_checkContext ==
    /\ At("L20")
    /\ IF js.gl = "null"
       THEN ConsoleError("WebGL not supported :(", Null)
       ELSE UNCHANGED log
    /\ pc' = "L123"
    /\ UNCHANGED <<status, js, ctx, calls, host>>

\* 123: const program = createProgram(gl, vertShader, fragShader)  (the call)
L123_callCreateProgram ==
    /\ At("L123")
    /\ pc' = "L62"
    /\ UNCHANGED <<status, js, ctx, calls, log, host>>

\* ------------------------------------------------------------ createShader
\* The call of createShader(gl, gl.<type>, <source>) from line 62 or 63: the
\* argument gl.<type> reads a property of gl.
CallCreateShader(line, type, source) ==
    /\ At(line)
    /\ IF js.gl = "null"
       THEN Throw /\ UNCHANGED js
       ELSE /\ js' = [js EXCEPT !.type = type, !.source = source,
                                !.shader = Uninit]
            /\ pc' = "L37"
            /\ UNCHANGED status
    /\ UNCHANGED <<ctx, calls, log, host>>

\* 62: const vertexShader = createShader(gl, gl.VERTEX_SHADER, vertexShaderSource)
L62_callCreateShader == CallCreateShader("L62", "VERTEX_SHADER", "vertShader")

\* 63: const fragmentShader = createShader(gl, gl.FRAGMENT_SHADER, fragmentShaderSource)
L63_callCreateShader == CallCreateShader("L63", "FRAGMENT_SHADER", "fragShader")

\* 37: const shader = gl.createShader(type)
L37_createShader ==
    /\ At("L37")
    /\ ctx' = GL_createShader(ctx, js.type)
    /\ js' = [js EXCEPT !.shader = ctx.nextId]
    /\ Issue("createShader", js.type, <<ctx.nextId>>)
    /\ pc' = "L38"
    /\ UNCHANGED <<status, log, host>>

\* 38: gl.shaderSource(shader, source)
L38_shaderSource ==
    /\ At("L38")
    /\ ctx' = GL_shaderSource(ctx, js.shader)
    /\ Issue("shaderSource", js.source, <<js.shader>>)
    /\ pc' = "L39"
    /\ UNCHANGED <<status, js, log, host>>

\* 39: gl.compileShader(shader)
L39_compileShader ==
    /\ At("L39")
    /\ \E ok \in BOOLEAN : ctx' = GL_compileShader(ctx, js.shader, ok)
    /\ Issue("compileShader", "", <<js.shader>>)
    /\ pc' = "L41"
    /\ UNCHANGED <<status, js, log, host>>

\* 41: if (!gl.getShaderParameter(shader, gl.COMPILE_STATUS)) {
L41_getShaderParameter ==
    /\ At("L41")
    /\ Issue("getShaderParameter", "COMPILE_STATUS", <<js.shader>>)
    /\ pc' = IF GL_getShaderParameter_COMPILE_STATUS(ctx, js.shader)
             THEN "L47" ELSE "L42"
    /\ UNCHANGED <<status, js, ctx, log, host>>

\* 42: console.error(gl.getShaderInfoLog(shader))
L42_logShaderInfoLog ==
    /\ At("L42")
    /\ Issue("getShaderInfoLog", "", <<js.shader>>)
    /\ ConsoleError("getShaderInfoLog", js.shader)
    /\ pc' = "L43"
    /\ UNCHANGED <<status, js, ctx, host>>

\* Line 43 without its deleteShader call.
L43_leakShader ==
    /\ At("L43")
    /\ pc' = "L44"
    /\ UNCHANGED <<status, js, ctx, calls, log, host>>

\* 43: gl.deleteShader(shader)
L43_deleteShader ==
    /\ At("L43")
    /\ ctx' = GL_deleteShader(ctx, js.shader)
    /\ Issue("deleteShader", "", <<js.shader>>)
    /\ pc' = "L44"
    /\ UNCHANGED <<status, js, log, host>>

\* A return of createShader: the value initialises vertexShader (call of line
\* 62) or fragmentShader (call of line 63).
ReturnFromCreateShader(line, value) ==
    /\ At(line)
    /\ IF js.type = "VERTEX_SHADER"
       THEN js' = [js EXCEPT !.vertexShader = value] /\ pc' = "L63"
       ELSE js' = [js EXCEPT !.fragmentShader = value] /\ pc' = "L64"
    /\ UNCHANGED <<status, ctx, calls, log, host>>

\* Line 44 returning the shader it has just deleted.
L44_returnDeleted == ReturnFromCreateShader("L44", js.shader)

\* 44: return null
L44_returnNull == ReturnFromCreateShader("L44", Null)

\* 47: return shader
L47_returnShader == ReturnFromCreateShader("L47", js.shader)

\* ----------------------------------------------------------- createProgram
\* 64: const program = gl.createProgram()
L64_createProgram ==
    /\ At("L64")
    /\ ctx' = GL_createProgram(ctx)
    /\ js' = [js EXCEPT !.cpProgram = ctx.nextId]
    /\ Issue("createProgram", "", <<ctx.nextId>>)
    /\ pc' = "L66"
    /\ UNCHANGED <<status, log, host>>

\* gl.attachShader(program, <shader>): a binding that follows the IDL
\* rejects a null shader with a TypeError before the context sees the call.
AttachShader(line, shader, next) ==
    /\ At(line)
    /\ Issue("attachShader", "", <<js.cpProgram, shader>>)
    /\ IF shader = Null /\ strictBinding
       THEN Throw /\ UNCHANGED ctx
       ELSE /\ ctx' = GL_attachShader(ctx, js.cpProgram, shader)
            /\ pc' = next
            /\ UNCHANGED status
    /\ UNCHANGED <<js, log, host>>

\* 66: gl.attachShader(program, vertexShader);
L66_attachShader == AttachShader("L66", js.vertexShader, "L67")

\* 67: gl.attachShader(program, fragmentShader);
L67_attachShader == AttachShader("L67", js.fragmentShader, "L68")

\* The slot assignments a linker may make: distinct slots for the two
\* attributes, both of which the vertex shader reads.
SlotAssignments ==
    {f \in [AttribNames -> 0..MaxLoc] : f["a_points"] # f["a_colors"]}

\* 68: gl.linkProgram(program)
L68_linkProgram ==
    /\ At("L68")
    /\ \E ok \in BOOLEAN, locs \in SlotAssignments :
           ctx' = GL_linkProgram(ctx, js.cpProgram, ok, locs)
    /\ Issue("linkProgram", "", <<js.cpProgram>>)
    /\ pc' = "L70"
    /\ UNCHANGED <<status, js, log, host>>

\* 70: if (!gl.getProgramParameter(program, gl.LINK_STATUS)) {
L70_getProgramParameter ==
    /\ At("L70")
    /\ Issue("getProgramParameter", "LINK_STATUS", <<js.cpProgram>>)
    /\ pc' = IF GL_getProgramParameter_LINK_STATUS(ctx, js.cpProgram)
             THEN "L75" ELSE "L71"
    /\ UNCHANGED <<status, js, ctx, log, host>>

\* 71: console.error(gl.getProgramInfoLog(program))
L71_logProgramInfoLog ==
    /\ At("L71")
    /\ Issue("getProgramInfoLog", "", <<js.cpProgram>>)
    /\ ConsoleError("getProgramInfoLog", js.cpProgram)
    /\ pc' = "L72"
    /\ UNCHANGED <<status, js, ctx, host>>

\* A return of createProgram: the value initialises the script's program.
ReturnFromCreateProgram(line, value) ==
    /\ At(line)
    /\ js' = [js EXCEPT !.program = value]
    /\ pc' = "L124"
    /\ UNCHANGED <<status, ctx, calls, log, host>>

\* Line 72 releasing the program before it returns null, as createShader
\* does with a shader.
L72_deleteAndReturnNull ==
    /\ At("L72")
    /\ ctx' = [ctx EXCEPT !.programs[js.cpProgram].deleted = TRUE]
    /\ Issue("deleteProgram", "", <<js.cpProgram>>)
    /\ js' = [js EXCEPT !.program = Null]
    /\ pc' = "L124"
    /\ UNCHANGED <<status, log, host>>

\* 72: return null
L72_returnNull == ReturnFromCreateProgram("L72", Null)

\* 75: return program;
L75_returnProgram == ReturnFromCreateProgram("L75", js.cpProgram)

\* 124-126: if (!program) { console.error('Failed to create program :(') }
L124_checkProgram ==
    /\ At("L124")
    /\ IF js.program = Null
       THEN ConsoleError("Failed to create program :(", Null)
       ELSE UNCHANGED log
    /\ pc' = "L146"
    /\ UNCHANGED <<status, js, ctx, calls, host>>

\* ------------------------------------------------------- vertex attributes
\* 146: const points_arr = [-1., -1., 0., 0.5, 1., -1.]
L146_points_arr ==
    /\ At("L146")
    /\ js' = [js EXCEPT !.points_arr = PointsLiteral]
    /\ pc' = "L154"
    /\ UNCHANGED <<status, ctx, calls, log, host>>

\* 154-158: const colors_arr = [ ... ]
L154_colors_arr ==
    /\ At("L154")
    /\ js' = [js EXCEPT !.colors_arr = ColorsLiteral]
    /\ pc' = "L161"
    /\ UNCHANGED <<status, ctx, calls, log, host>>

\* 161: const pointsBuffer = gl.createBuffer();
L161_createBuffer ==
    /\ At("L161")
    /\ ctx' = GL_createBuffer(ctx)
    /\ js' = [js EXCEPT !.pointsBuffer = ctx.nextId]
    /\ Issue("createBuffer", "", <<ctx.nextId>>)
    /\ pc' = "L162"
    /\ UNCHANGED <<status, log, host>>

\* gl.bindBuffer(gl.ARRAY_BUFFER, <buffer>);
BindBuffer(line, buffer, next) ==
    /\ At(line)
    /\ ctx' = GL_bindBuffer_ARRAY_BUFFER(ctx, buffer)
    /\ Issue("bindBuffer", "ARRAY_BUFFER", <<buffer>>)
    /\ pc' = next
    /\ UNCHANGED <<status, js, log, host>>

\* gl.bufferData(gl.ARRAY_BUFFER, new Float32Array(<arr>), gl.STATIC_DRAW);
BufferData(line, arr, next) ==
    /\ At(line)
    /\ ctx' = GL_bufferData_ARRAY_BUFFER(ctx, Float32Array(arr), "STATIC_DRAW")
    /\ Issue("bufferData", "ARRAY_BUFFER", <<Len(arr)>>)
    /\ pc' = next
    /\ UNCHANGED <<status, js, log, host>>

\* 162: gl.bindBuffer(gl.ARRAY_BUFFER, pointsBuffer);
L162_bindBuffer == BindBuffer("L162", js.pointsBuffer, "L163")

\* 163: gl.bufferData(gl.ARRAY_BUFFER, new Float32Array(points_arr), gl.STATIC_DRAW);
L163_bufferData == BufferData("L163", js.points_arr, "L166")

\* 166: const pointsLocation = gl.getAttribLocation(program, 'a_points');
\* A binding that follows the IDL rejects a null program with a TypeError.
L166_getAttribLocation ==
    /\ At("L166")
    /\ Issue("getAttribLocation", "a_points", <<js.program>>)
    /\ IF js.program = Null /\ strictBinding
       THEN Throw /\ UNCHANGED <<js, ctx>>
       ELSE /\ js' = [js EXCEPT !.pointsLocation =
                          GL_getAttribLocation(ctx, js.program, "a_points")]
            /\ ctx' = GL_getAttribLocation_ctx(ctx, js.program)
            /\ pc' = "L167"
            /\ UNCHANGED status
    /\ UNCHANGED <<log, host>>

\* 167: gl.bindBuffer(gl.ARRAY_BUFFER, pointsBuffer);
L167_bindBuffer == BindBuffer("L167", js.pointsBuffer, "L168")

\* gl.vertexAttribPointer(<location>, <size>, gl.FLOAT, false, 0, 0);
\* args of the recorded call: location, size, normalized (0 = false),
\* stride, offset.
VertexAttribPointer(line, location, size, next) ==
    /\ At(line)
    /\ ctx' = GL_vertexAttribPointer(ctx, location, size, "FLOAT", FALSE, 0, 0)
    /\ Issue("vertexAttribPointer", "FLOAT", <<location, size, 0, 0, 0>>)
    /\ pc' = next
    /\ UNCHANGED <<status, js, log, host>>

\* gl.enableVertexAttribArray(<location>);
EnableVertexAttribArray(line, location, next) ==
    /\ At(line)
    /\ ctx' = GL_enableVertexAttribArray(ctx, location)
    /\ Issue("enableVertexAttribArray", "", <<location>>)
    /\ pc' = next
    /\ UNCHANGED <<status, js, log, host>>

\* 168: gl.vertexAttribPointer(pointsLocation, 2, gl.FLOAT, false, 0, 0);
L168_vertexAttribPointer ==
    VertexAttribPointer("L168", js.pointsLocation, PointsSize, "L169")

\* 169: gl.enableVertexAttribArray(pointsLocation);
L169_enableVertexAttribArray ==
    EnableVertexAttribArray("L169", js.pointsLocation, "L172")

\* 172: const colorsBuffer = gl.createBuffer();
L172_createBuffer ==
    /\ At("L172")
    /\ ctx' = GL_createBuffer(ctx)
    /\ js' = [js EXCEPT !.colorsBuffer = ctx.nextId]
    /\ Issue("createBuffer", "", <<ctx.nextId>>)
    /\ pc' = "L173"
    /\ UNCHANGED <<status, log, host>>

\* 173: gl.bindBuffer(gl.ARRAY_BUFFER, colorsBuffer);
L173_bindBuffer == BindBuffer("L173", js.colorsBuffer, "L174")

\* 174: gl.bufferData(gl.ARRAY_BUFFER, new Float32Array(colors_arr), gl.STATIC_DRAW);
L174_bufferData == BufferData("L174", js.colors_arr, "L186")

\* 186: const colorLocation = gl.getAttribLocation(program, 'a_colors');
L186_getAttribLocation ==
    /\ At("L186")
    /\ Issue("getAttribLocation", "a_colors", <<js.program>>)
    /\ IF js.program = Null /\ strictBinding
       THEN Throw /\ UNCHANGED <<js, ctx>>
       ELSE /\ js' = [js EXCEPT !.colorLocation =
                          GL_getAttribLocation(ctx, js.program, "a_colors")]
            /\ ctx' = GL_getAttribLocation_ctx(ctx, js.program)
            /\ pc' = "L187"
            /\ UNCHANGED status
    /\ UNCHANGED <<log, host>>

\* 187: gl.bindBuffer(gl.ARRAY_BUFFER, colorsBuffer);
L187_bindBuffer == BindBuffer("L187", js.colorsBuffer, "L188")

\* 188: gl.vertexAttribPointer(colorLocation, 4, gl.FLOAT, false, 0, 0);
L188_vertexAttribPointer ==
    VertexAttribPointer("L188", js.colorLocation, ColorsSize, "L189")

\* 189: gl.enableVertexAttribArray(colorLocation);
L189_enableVertexAttribArray ==
    EnableVertexAttribArray("L189", js.colorLocation, "L195")

\* ---------------------------------------------------------------- drawing
\* 195: gl.viewport(0, 0, gl.canvas.width, gl.canvas.height);
L195_viewport ==
    /\ At("L195")
    /\ ctx' = GL_viewport(ctx, 0, 0, dom.width, dom.height)
    /\ Issue("viewport", "", <<0, 0, dom.width, dom.height>>)
    /\ pc' = "L197"
    /\ UNCHANGED <<status, js, log, host>>

\* 197: gl.clearColor(0., 0., 0., 1.);
L197_clearColor ==
    /\ At("L197")
    /\ ctx' = GL_clearColor(ctx, 0, 0, 0, 1)
    /\ Issue("clearColor", "", <<0, 0, 0, 1>>)
    /\ pc' = "L198"
    /\ UNCHANGED <<status, js, log, host>>

\* 198: gl.clear(gl.COLOR_BUFFER_BIT);
L198_clear ==
    /\ At("L198")
    /\ ctx' = GL_clear_COLOR_BUFFER_BIT(ctx)
    /\ Issue("clear", "COLOR_BUFFER_BIT", <<>>)
    /\ pc' = "L200"
    /\ UNCHANGED <<status, js, log, host>>

\* 200: gl.useProgram(program);
L200_useProgram ==
    /\ At("L200")
    /\ ctx' = GL_useProgram(ctx, js.program)
    /\ Issue("useProgram", "", <<js.program>>)
    /\ pc' = "L202"
    /\ UNCHANGED <<status, js, log, host>>

\* Line 202 drawing one vertex per float of points_arr.
L202_drawArraysPerFloat ==
    /\ At("L202")
    /\ ctx' = GL_drawArrays(ctx, "TRIANGLES", 0, Len(js.points_arr))
    /\ Issue("drawArrays", "TRIANGLES", <<0, Len(js.points_arr)>>)
    /\ pc' = "end"
    /\ status' = "done"
    /\ UNCHANGED <<js, log, host>>

\* 202: gl.drawArrays(gl.TRIANGLES, 0, 3);  -- the last statement
L202_drawArrays ==
    /\ At("L202")
    /\ ctx' = GL_drawArrays(ctx, "TRIANGLES", 0, VertexCount)
    /\ Issue("drawArrays", "TRIANGLES", <<0, VertexCount>>)
    /\ pc' = "end"
    /\ status' = "done"
    /\ UNCHANGED <<js, log, host>>

Next ==
    \/ L13_getElementById \/ L14_checkCanvas \/ L19_getContext
    \/ L20_checkContext \/ L123_callCreateProgram
    \/ L62_callCreateShader \/ L63_callCreateShader
    \/ L37_createShader \/ L38_shaderSource \/ L39_compileShader
    \/ L41_getShaderParameter \/ L42_logShaderInfoLog \/ L43_deleteShader
    \/ L44_returnNull \/ L47_returnShader
    \/ L64_createProgram \/ L66_attachShader \/ L67_attachShader
    \/ L68_linkProgram \/ L70_getProgramParameter \/ L71_logProgramInfoLog
    \/ L72_returnNull \/ L75_returnProgram \/ L124_checkProgram
    \/ L146_points_arr \/ L154_colors_arr
    \/ L161_createBuffer \/ L162_bindBuffer \/ L163_bufferData
    \/ L166_getAttribLocation \/ L167_bindBuffer
    \/ L168_vertexAttribPointer \/ L169_enableVertexAttribArray
    \/ L172_createBuffer \/ L173_bindBuffer \/ L174_bufferData
    \/ L186_getAttribLocation \/ L187_bindBuffer
    \/ L188_vertexAttribPointer \/ L189_enableVertexAttribArray
    \/ L195_viewport \/ L197_clearColor \/ L198_clear
    \/ L200_useProgram \/ L202_drawArrays

Spec == Init /\ [][Next]_vars

\* The phase of the run, in the terms of the design's state machine
\* Uninitialized -> ContextAcquired -> ShadersCompiled -> ProgramLinked ->
\* BuffersBound -> Drawn: the context is acquired by line 19, the shaders are
\* compiled when both createShader calls have returned (lines 62-63), the
\* program is linked when linkProgram has run (line 68), the buffers are
\* bound when line 189 has run, and the triangle is drawn by line 202.
Phase ==
    IF status = "done" THEN "Drawn"
    ELSE IF pc \in {"L195", "L197", "L198", "L200", "L202"} THEN "BuffersBound"
    ELSE IF pc \in {"L70", "L71", "L72", "L75", "L124", "L146", "L154",
                    "L161", "L162", "L163", "L166", "L167", "L168", "L169",
                    "L172", "L173", "L174", "L186", "L187", "L188", "L189"}
         THEN "ProgramLinked"
    ELSE IF pc \in {"L64", "L66", "L67", "L68"} THEN "ShadersCompiled"
    ELSE IF js.gl = "gl" THEN "ContextAcquired"
    ELSE "Uninitialized"

\* ================================================================ claims
\* Helpers over the recorded calls and the console output.
CallsOf(op) == {i \in 1..Len(calls) : calls[i].op = op}

Count(op) == Cardinality(CallsOf(op))

Logged(text, obj) ==
    Cardinality({i \in 1..Len(log) : log[i] = [text |-> text, obj |-> obj]})

\* The calls whose arguments are object handles.
HandleOps ==
    {"createShader", "shaderSource", "compileShader", "getShaderParameter",
     "getShaderInfoLog", "deleteShader", "createProgram", "attachShader",
     "linkProgram", "getProgramParameter", "getProgramInfoLog", "deleteProgram",
     "createBuffer", "bindBuffer", "getAttribLocation", "useProgram"}

HandleArgs(call) ==
    IF call.op \in HandleOps
    THEN {call.args[k] : k \in 1..Len(call.args)} ELSE {}

\* The shader the createShader call for a stage made, and whether that call
\* of createShader has returned, and with what.
ShadersOfType(type) == {s \in DOMAIN ctx.shaders : ctx.shaders[s].type = type}

Returned(type) ==
    IF type = "VERTEX_SHADER" THEN js.vertexShader # Uninit
    ELSE js.fragmentShader # Uninit

Result(type) ==
    IF type = "VERTEX_SHADER" THEN js.vertexShader ELSE js.fragmentShader

StageTypes == {"VERTEX_SHADER", "FRAGMENT_SHADER"}

InCreateShader == pc \in {"L37", "L38", "L39", "L41", "L42", "L43", "L44", "L47"}

\* C1: createShader, for either stage and either compile status: when the
\* status queried after compileShader is false, the info log of that shader
\* has been logged (once), deleteShader has been called on that shader (once)
\* and the call returned null; when it is true, the call returned the shader
\* it created, and that shader was neither logged about nor deleted.  No
\* statement of createShader throws.
C1_CreateShaderContract ==
    /\ status = "threw" => ~InCreateShader
    /\ \A type \in StageTypes : \A s \in ShadersOfType(type) :
         Returned(type) =>
            IF ctx.shaders[s].status
            THEN /\ Result(type) = s
                 /\ ~ctx.shaders[s].deleted
                 /\ Logged("getShaderInfoLog", s) = 0
                 /\ \A i \in CallsOf("deleteShader") : calls[i].args # <<s>>
            ELSE /\ Result(type) = Null
                 /\ ctx.shaders[s].deleted
                 /\ Logged("getShaderInfoLog", s) = 1
                 /\ Cardinality({i \in CallsOf("deleteShader") :
                                    calls[i].args = <<s>>}) = 1
    /\ \A i \in CallsOf("deleteShader") :
         /\ calls[i].args[1] \in DOMAIN ctx.shaders
         /\ ~ctx.shaders[calls[i].args[1]].status

\* Both outcomes of createShader have happened: the vertex call returned null
\* after a failed compile, the fragment call returned its shader.
C1_Witness ==
    /\ js.vertexShader = Null
    /\ js.fragmentShader \in DOMAIN ctx.shaders
    /\ Count("deleteShader") = 1

\* C2: createProgram: when the link status queried after linkProgram is true
\* (which needs both stages compiled), it returns the program it created,
\* which is not null, and logs nothing about it; when the status is false it
\* logs the program info log (once) and returns null, and the program object
\* is still alive: no deleteProgram call is made.
C2_CreateProgramContract ==
    /\ Count("deleteProgram") = 0
    /\ \A p \in DOMAIN ctx.programs : ~ctx.programs[p].deleted
    /\ js.program # Uninit =>
         /\ js.cpProgram \in DOMAIN ctx.programs
         /\ IF ctx.programs[js.cpProgram].status
            THEN /\ js.program = js.cpProgram
                 /\ js.program # Null
                 /\ js.vertexShader # Null /\ js.fragmentShader # Null
                 /\ Logged("getProgramInfoLog", js.cpProgram) = 0
            ELSE /\ js.program = Null
                 /\ Logged("getProgramInfoLog", js.cpProgram) = 1

\* createProgram returned null on a link failure with both stages compiled.
C2_Witness ==
    /\ js.program = Null
    /\ js.vertexShader \in DOMAIN ctx.shaders
    /\ js.fragmentShader \in DOMAIN ctx.shaders
    /\ Logged("getProgramInfoLog", js.cpProgram) = 1

\* C9: no call made after deleteShader(s) has s among its handle arguments,
\* and the shader argument of every attachShader call is null or a shader
\* that is alive and whose compile status is true.
C9_NoUseAfterDelete ==
    /\ \A i \in CallsOf("deleteShader") : \A j \in (i + 1)..Len(calls) :
         calls[i].args[1] \notin HandleArgs(calls[j])
    /\ \A j \in CallsOf("attachShader") :
         \/ calls[j].args[2] = Null
         \/ /\ IsShader(ctx, calls[j].args[2])
            /\ ctx.shaders[calls[j].args[2]].status

\* A shader was deleted and createProgram went on to attach the null that
\* createShader returned for it.
C9_Witness ==
    \E i \in CallsOf("deleteShader") : \E j \in CallsOf("attachShader") :
        i < j /\ calls[j].args[2] = Null

\* C10: when getElementById gives null, or getContext('webgl') gives null, the
\* script logs its message and goes on to the next statement that reads a
\* property of the missing object (line 19, resp. line 62), where it stops on
\* a TypeError: no WebGL call is issued (so no shader, program or buffer is
\* created and nothing is drawn), the script never reaches its end, and it
\* cannot stop anywhere but in the error state.
C10_MissingCanvasOrContext ==
    /\ js.canvas = "null" =>
         /\ pc \in {"L14", "L19"}
         /\ pc = "L19" => Logged("Canvas not found :(", Null) = 1
         /\ js.gl = "uninit"
    /\ js.gl = "null" =>
         /\ pc \in {"L20", "L123", "L62"}
         /\ pc # "L20" => Logged("WebGL not supported :(", Null) = 1
    /\ (js.canvas = "null" \/ js.gl = "null") =>
         /\ calls = <<>>
         /\ ctx = NewContext(dom.width, dom.height)
         /\ status \in {"running", "threw"}
         /\ status = "running" => ENABLED Next

\* The script stopped on the TypeError of line 62 with no context.
C10_Witness ==
    /\ js.gl = "null"
    /\ status = "threw"
    /\ pc = "L62"

\* The fragment shader has been compiled and its compile status is false.
FragmentCompileFailed ==
    \E s \in ShadersOfType("FRAGMENT_SHADER") :
        ctx.shaders[s].compiled /\ ~ctx.shaders[s].status

\* C3 (as claimed): once the fragment shader has failed to compile, whatever
\* createProgram returns is null and no drawArrays call is issued.
C3_NoDrawAfterFragmentFailure ==
    FragmentCompileFailed =>
        /\ js.program \in {Uninit, Null}
        /\ Count("drawArrays") = 0

\* createProgram's calls on its program, in the order claimed: createProgram,
\* attachShader(program, vertexShader), attachShader(program, fragmentShader),
\* linkProgram(program), with no other attachShader call and the link status
\* not queried before linkProgram.
CreateProgramSequence ==
    \E i \in 1..Len(calls) :
        /\ i + 3 <= Len(calls)
        /\ calls[i] = Call("createProgram", "", <<js.cpProgram>>)
        /\ calls[i + 1] = Call("attachShader", "", <<js.cpProgram, js.vertexShader>>)
        /\ calls[i + 2] = Call("attachShader", "", <<js.cpProgram, js.fragmentShader>>)
        /\ calls[i + 3] = Call("linkProgram", "", <<js.cpProgram>>)
        /\ Count("attachShader") = 2
        /\ \A k \in CallsOf("getProgramParameter") : k > i + 3

\* C4 (as claimed): for every combination of compile outcomes, a run in which
\* both createShader calls have returned does not stop before createProgram
\* has created its program, attached the vertex result, attached the fragment
\* result and linked, in that order.
C4_NoShortCircuit ==
    (js.fragmentShader # Uninit /\ status # "running") => CreateProgramSequence

\* The five calls of the draw sequence, as lines 195-202 issue them.
DrawSequence ==
    << Call("viewport", "", <<0, 0, dom.width, dom.height>>),
       Call("clearColor", "", <<0, 0, 0, 1>>),
       Call("clear", "COLOR_BUFFER_BIT", <<>>),
       Call("useProgram", "", <<js.program>>),
       Call("drawArrays", "TRIANGLES", <<0, VertexCount>>) >>

DrawOps == {"viewport", "clearColor", "clear", "useProgram", "drawArrays"}

IsDrawOp(c) == c.op \in DrawOps

\* The calls of the draw sequence issued so far, in order.
DrawCalls == SelectSeq(calls, IsDrawOp)

PhaseRank(ph) ==
    CASE ph = "Uninitialized" -> 0
      [] ph = "ContextAcquired" -> 1
      [] ph = "ShadersCompiled" -> 2
      [] ph = "ProgramLinked" -> 3
      [] ph = "BuffersBound" -> 4
      [] ph = "Drawn" -> 5

\* C6 (as claimed): once the context is acquired every step keeps the phase
\* or moves it to the next one, and a run that has the context does not end
\* anywhere but in Drawn, whatever the compile and link outcomes.
C6_PhasesReachDrawn ==
    [][ /\ js.gl = "gl" =>
             PhaseRank(Phase') \in {PhaseRank(Phase), PhaseRank(Phase) + 1}
        /\ (js'.gl = "gl" /\ status' # "running") => Phase' = "Drawn" ]_vars

\* The shape of the two arrays, once they exist: 3 vertices of 2 components,
\* 3 vertices of 4 components, hence as many vertices in one as in the other.
ArraysWellFormed ==
    /\ js.points_arr # <<>> => Len(js.points_arr) = VertexCount * PointsSize
    /\ js.colors_arr # <<>> => Len(js.colors_arr) = VertexCount * ColorsSize
    /\ (js.points_arr # <<>> /\ js.colors_arr # <<>>) =>
          Len(js.points_arr) \div PointsSize = Len(js.colors_arr) \div ColorsSize

\* C7: whenever the arrays exist, points_arr holds 3 vertices of 2 components
\* and colors_arr 3 vertices of 4 components (so vertex i of one pairs with
\* vertex i of the other), and no step changes an array once it is created.
C7_ArraysFixed ==
    [][ /\ ArraysWellFormed
        /\ ArraysWellFormed'
        /\ js.points_arr # <<>> => js.points_arr' = js.points_arr
        /\ js.colors_arr # <<>> => js.colors_arr' = js.colors_arr ]_vars

\* Both arrays exist and the script has run on to its end.
C7_Witness ==
    /\ status = "done"
    /\ js.points_arr = PointsLiteral
    /\ js.colors_arr = ColorsLiteral

\* The slot was resolved by name from a linked program.
SlotResolved(location, name) ==
    /\ IsProgram(ctx, js.program)
    /\ ctx.programs[js.program].status
    /\ location = ctx.programs[js.program].locs[name]

\* The buffer is the one bound to ARRAY_BUFFER and holds the array.
BoundWithData(buffer, arr) ==
    /\ IsBuffer(ctx, buffer)
    /\ ctx.arrayBuffer = buffer
    /\ ctx.buffers[buffer].data = Float32Array(arr)

\* The slot carries the layout float / not normalized / stride 0 / offset 0
\* over the buffer, and is enabled.
SlotReady(location, size, buffer) ==
    /\ location \in 0..MaxLoc
    /\ ctx.attribs[location] =
          [enabled |-> TRUE, size |-> size, type |-> "FLOAT",
           normalized |-> FALSE, stride |-> 0, offset |-> 0, buffer |-> buffer]

\* C8 (as claimed): when line 168 (resp. 188) calls vertexAttribPointer, the
\* buffer bound to ARRAY_BUFFER is pointsBuffer (resp. colorsBuffer), already
\* holding points_arr (resp. colors_arr), and the slot was resolved by name
\* from the linked program; and when line 202 draws, both slots are enabled
\* with the layout float / not normalized / stride 0 / offset 0, each over
\* its own buffer.
C8_AttributeSetup ==
    /\ At("L168") =>
         /\ BoundWithData(js.pointsBuffer, js.points_arr)
         /\ SlotResolved(js.pointsLocation, "a_points")
    /\ At("L188") =>
         /\ BoundWithData(js.colorsBuffer, js.colors_arr)
         /\ js.colorsBuffer # js.pointsBuffer
         /\ SlotResolved(js.colorLocation, "a_colors")
    /\ At("L202") =>
         /\ SlotReady(js.pointsLocation, PointsSize, js.pointsBuffer)
         /\ SlotReady(js.colorLocation, ColorsSize, js.colorsBuffer)

====
